---- MODULE Spec2Model ----
(***************************************************************************)
(* Model of the MCP bridge server (src/server.js): a single in-memory      *)
(* credential slot, the GitHub OAuth handshake that fills it, the two SSE  *)
(* discovery routes and the two tool invocation routes.  Every handler is  *)
(* an async function: it runs synchronously up to its first await, and a   *)
(* later step resumes it when the awaited promise settles, so the steps of *)
(* different requests interleave at the awaits.  The older server of the   *)
(* repository (src/unnamed/part_000), which has the /sse route only, is    *)
(* the second program the model can run.                                   *)
(***************************************************************************)
EXTENDS Integers, Sequences, FiniteSets, TLC

\* Number of requests the server handles at the same time.  An answered
\* request's slot is reused by the next arrival.
MaxReq == 2

ReqIds == 1..MaxReq

(***************************************************************************)
(* JavaScript values.  Every value is a record [t, v]; t is the type tag.  *)
(***************************************************************************)
JSNull == [t |-> "null", v |-> ""]

JSUndefined == [t |-> "undefined", v |-> ""]

JStr(s) == [t |-> "str", v |-> s]

JNum(n) == [t |-> "num", v |-> n]

JArr(elems) == [t |-> "arr", v |-> elems]

\* An object is the sequence of its <<key, value>> members, in insertion order.
JObj(members) == [t |-> "obj", v |-> members]

\* ToBoolean: what `if (x)`, `!x` and `a || b` test.
Truthy(x) ==
  CASE x.t = "null" -> FALSE
    [] x.t = "undefined" -> FALSE
    [] x.t = "str" -> x.v # ""
    [] OTHER -> TRUE

\* a || b
JSOr(a, b) == IF Truthy(a) THEN a ELSE b

\* ToString, as applied by a template literal `${x}`.
ToStr(x) ==
  CASE x.t = "null" -> "null"
    [] x.t = "undefined" -> "undefined"
    [] x.t = "str" -> x.v
    [] x.t = "num" -> x.v
    [] x.t = "arr" -> "<array>"
    [] OTHER -> "[object Object]"

\* Property read x.key.  Reading a property of null throws a TypeError,
\* reported as ok = FALSE; a missing property reads as undefined.
GetProp(x, key) ==
  IF x.t \in {"null", "undefined"} THEN [ok |-> FALSE, val |-> JSUndefined]
  ELSE IF x.t # "obj" THEN [ok |-> TRUE, val |-> JSUndefined]
  ELSE LET hits == {i \in 1..Len(x.v) : x.v[i][1] = key}
       IN  IF hits = {} THEN [ok |-> TRUE, val |-> JSUndefined]
           ELSE [ok |-> TRUE,
                 val |-> x.v[CHOOSE i \in hits : \A j \in hits : j <= i][2]]

\* Object.keys(x) of an object value.
Keys(x) == IF x.t = "obj" THEN {x.v[i][1] : i \in 1..Len(x.v)} ELSE {}

(***************************************************************************)
(* JSON text is a sequence of lexical tokens [k, v]: punctuation ("p"),    *)
(* string ("str"), number ("num"), the literal null ("null"), insignificant*)
(* whitespace ("ws") and bytes that are not JSON at all ("bad").           *)
(***************************************************************************)
P(c) == [k |-> "p", v |-> c]

S(s) == [k |-> "str", v |-> s]

N(n) == [k |-> "num", v |-> n]

NullTok == [k |-> "null", v |-> "null"]

WS == [k |-> "ws", v |-> " "]

Bad(s) == [k |-> "bad", v |-> s]

ParseFail == [ok |-> FALSE, val |-> JSUndefined, rest |-> <<>>]

IsPunct(ts, c) == ts # <<>> /\ Head(ts).k = "p" /\ Head(ts).v = c

RECURSIVE ParseValue(_)
RECURSIVE ParseElems(_, _)
RECURSIVE ParseMembers(_, _)

\* One JSON value at the head of ts (whitespace already skipped).
ParseValue(ts) ==
  IF ts = <<>> THEN ParseFail
  ELSE LET h == Head(ts)
       IN  CASE h.k = "null" -> [ok |-> TRUE, val |-> JSNull, rest |-> Tail(ts)]
             [] h.k = "str" -> [ok |-> TRUE, val |-> JStr(h.v), rest |-> Tail(ts)]
             [] h.k = "num" -> [ok |-> TRUE, val |-> JNum(h.v), rest |-> Tail(ts)]
             [] h.k = "p" /\ h.v = "[" ->
                  IF IsPunct(Tail(ts), "]")
                  THEN [ok |-> TRUE, val |-> JArr(<<>>), rest |-> Tail(Tail(ts))]
                  ELSE ParseElems(Tail(ts), <<>>)
             [] h.k = "p" /\ h.v = "{" ->
                  IF IsPunct(Tail(ts), "}")
                  THEN [ok |-> TRUE, val |-> JObj(<<>>), rest |-> Tail(Tail(ts))]
                  ELSE ParseMembers(Tail(ts), <<>>)
             [] OTHER -> ParseFail

\* value ("," value)* "]"
ParseElems(ts, acc) ==
  LET e == ParseValue(ts)
  IN  IF ~e.ok THEN ParseFail
      ELSE IF IsPunct(e.rest, "]")
           THEN [ok |-> TRUE, val |-> JArr(Append(acc, e.val)), rest |-> Tail(e.rest)]
      ELSE IF IsPunct(e.rest, ",")
           THEN ParseElems(Tail(e.rest), Append(acc, e.val))
      ELSE ParseFail

\* string ":" value ("," string ":" value)* "}"
ParseMembers(ts, acc) ==
  IF ts = <<>> \/ Head(ts).k # "str" \/ ~IsPunct(Tail(ts), ":") THEN ParseFail
  ELSE LET key == Head(ts).v
           e == ParseValue(Tail(Tail(ts)))
       IN  IF ~e.ok THEN ParseFail
           ELSE IF IsPunct(e.rest, "}")
                THEN [ok |-> TRUE, val |-> JObj(Append(acc, <<key, e.val>>)),
                      rest |-> Tail(e.rest)]
           ELSE IF IsPunct(e.rest, ",")
                THEN ParseMembers(Tail(e.rest), Append(acc, <<key, e.val>>))
           ELSE ParseFail

\* JSON.parse / Response.json(): the whole text must be one value.
JSONParse(text) ==
  LET ts == SelectSeq(text, LAMBDA tok : tok.k # "ws")
      r == ParseValue(ts)
  IN  IF r.ok /\ r.rest = <<>> THEN [ok |-> TRUE, val |-> r.val]
      ELSE [ok |-> FALSE, val |-> JSUndefined]

RECURSIVE JSONStringify(_)
RECURSIVE StringifyElems(_, _)
RECURSIVE StringifyMembers(_, _)

\* JSON.stringify of a value that holds no undefined: compact, no whitespace.
JSONStringify(x) ==
  CASE x.t = "null" -> <<NullTok>>
    [] x.t = "str" -> <<S(x.v)>>
    [] x.t = "num" -> <<N(x.v)>>
    [] x.t = "arr" -> <<P("[")>> \o StringifyElems(x.v, 1) \o <<P("]")>>
    [] x.t = "obj" -> <<P("{")>> \o StringifyMembers(x.v, 1) \o <<P("}")>>
    [] OTHER -> <<>>

StringifyElems(elems, i) ==
  IF i > Len(elems) THEN <<>>
  ELSE (IF i > 1 THEN <<P(",")>> ELSE <<>>)
       \o (IF elems[i].t = "undefined" THEN <<NullTok>> ELSE JSONStringify(elems[i]))
       \o StringifyElems(elems, i + 1)

\* A member whose value is undefined is omitted.
StringifyMembers(members, i) ==
  LET kept == SelectSeq(members, LAMBDA m : m[2].t # "undefined")
  IN  IF i > Len(kept) THEN <<>>
      ELSE (IF i > 1 THEN <<P(",")>> ELSE <<>>)
           \o <<S(kept[i][1]), P(":")>> \o JSONStringify(kept[i][2])
           \o StringifyMembers(kept, i + 1)

(***************************************************************************)
(* What the outside world can send.                                        *)
(***************************************************************************)
\* req.query.code on the callback: absent, empty, or a one-time code.
Codes == {JSUndefined, JStr(""), JStr("code-1")}

\* A deployment's process.env: each credential is set or unset.
Environments ==
  [GITHUB_CLIENT_ID : {JSUndefined, JStr("client-id")},
   GITHUB_CLIENT_SECRET : {JSUndefined, JStr("client-secret")}]

TokenGranted(tok) ==
  <<P("{"), S("access_token"), P(":"), S(tok), P(","),
    S("token_type"), P(":"), S("bearer"), P("}")>>

\* Bodies the token endpoint may answer with: a grant of either token, an
\* OAuth error with or without a description, a JSON object that is neither
\* (an API-level message), the JSON literal null, and a non-JSON page.
\* A member that is present is a non-empty string, as OAuth requires of the
\* error code and of the token.
TokenBodies ==
  { TokenGranted("tokA"),
    TokenGranted("tokB"),
    <<P("{"), S("error"), P(":"), S("access_denied"), P("}")>>,
    <<P("{"), S("error"), P(":"), S("bad_verification_code"), P(","),
      S("error_description"), P(":"), S("The code passed is incorrect or expired."),
      P("}")>>,
    <<P("{"), S("message"), P(":"), S("Not Found"), P("}")>>,
    <<NullTok>>,
    <<Bad("<html>")>> }

\* Responses of the credentialed API: HTTP status and body text.
ApiResponses ==
  { [status |-> "200",
     text |-> <<P("["), WS, P("{"), S("id"), P(":"), WS, N("1"), P(","), WS,
                S("name"), P(":"), WS, S("repo-a"), P("}"), WS, P("]")>>],
    [status |-> "200",
     text |-> <<P("{"), S("login"), P(":"), S("octocat"), P("}")>>],
    [status |-> "401",
     text |-> <<P("{"), S("message"), P(":"), S("Bad credentials"), P("}")>>],
    [status |-> "502", text |-> <<Bad("<html>")>>] }

(***************************************************************************)
(* State.                                                                  *)
(***************************************************************************)
VARIABLES
  githubAccessToken,  \* the credential slot (server.js line 19)
  env,                \* process.env of this deployment
  program,            \* which of the repository's two server programs runs
  req,                \* per request: route, position, response, outbound calls
  lastExchange        \* history: the access_token of the latest exchange answered 200

vars == <<githubAccessToken, env, program, req, lastExchange>>

\* No exchange has been answered 200 yet.
NoExchange == [t |-> "none", v |-> ""]

NoResponse ==
  [n |-> 0, status |-> "", headers |-> <<>>, ops |-> <<>>,
   kind |-> "", body |-> <<>>, ended |-> FALSE]

\* Nothing received from the upstream (yet).
NoReply == [kind |-> "none", status |-> "", text |-> <<>>]

NoRoute == [method |-> "", path |-> <<>>]

FreeReq ==
  [route |-> NoRoute, code |-> JSUndefined, pc |-> "free", res |-> NoResponse,
   calls |-> <<>>, got |-> NoReply]

\* A request slot can take a new request once its previous one was answered.
Free(r) == req[r].pc \in {"free", "done"}

(***************************************************************************)
(* Express response helpers.                                               *)
(***************************************************************************)
\* res.status(code).send(text): one complete text response.
SendText(code, text) ==
  [n |-> 1, status |-> code, headers |-> <<<<"Content-Type", "text/html">>>>,
   ops |-> <<"status", "send">>, kind |-> "text", body |-> <<text>>, ended |-> TRUE]

\* res.status(code).json(value): one complete JSON response.
SendJson(code, value) ==
  [n |-> 1, status |-> code, headers |-> <<<<"Content-Type", "application/json">>>>,
   ops |-> <<"status", "json">>, kind |-> "json", body |-> JSONStringify(value), ended |-> TRUE]

\* res.redirect(url): 302 with a Location header.
SendRedirect(url) ==
  [n |-> 1, status |-> "302", headers |-> <<<<"Location", url>>>>,
   ops |-> <<"redirect">>, kind |-> "redirect", body |-> <<>>, ended |-> TRUE]

\* The request is answered and its handler has returned.
Answered(r, response) == [req[r] EXCEPT !.pc = "done", !.res = response]

\* A request arriving on slot r for route rt, before its handler runs.
Arrived(rt) == [FreeReq EXCEPT !.route = rt]

\* The repository holds two programs: the OAuth tool server (server.js) and
\* the minimal SSE server it grew from (unnamed/part_000).
Programs == {"server.js", "part_000"}

Init ==
  /\ githubAccessToken = JSNull
  /\ env \in Environments
  /\ program \in Programs
  /\ req = [r \in ReqIds |-> FreeReq]
  /\ lastExchange = NoExchange

(***************************************************************************)
(* The routes registered on the Express app.                               *)
(***************************************************************************)
\* A path is the sequence of its segments: /auth/github is <<"auth", "github">>
\* and / is <<>>.
Route(method, path) == [method |-> method, path |-> path]

\* Mutant: the POST /getUser route is not registered.
RoutesWithoutGetUser ==
  { Route("GET", <<"auth", "github">>),
    Route("GET", <<"auth", "github", "callback">>),
    Route("GET", <<"sse">>),
    Route("GET", <<>>),
    Route("POST", <<"listRepos">>) }

Routes ==
  { Route("GET", <<"auth", "github">>),
    Route("GET", <<"auth", "github", "callback">>),
    Route("GET", <<"sse">>),
    Route("GET", <<>>),
    Route("POST", <<"listRepos">>),
    Route("POST", <<"getUser">>) }

(***************************************************************************)
(* GET /auth/github                                                        *)
(***************************************************************************)
BASE_URL == "BASE_URL"

\* The authorize URL: endpoint and URLSearchParams, in insertion order.
AuthorizeUrl(clientId) ==
  [endpoint |-> "https://github.com/login/oauth/authorize",
   params |-> << <<"client_id", <<ToStr(clientId)>> >>,
                 <<"redirect_uri", <<BASE_URL, "/auth/github/callback">> >>,
                 <<"scope", <<"repo", " ", "read:user">> >>,
                 <<"allow_signup", <<"true">> >> >>]

BeginAuthorization(r) ==
  LET clientId == env.GITHUB_CLIENT_ID
  IN  /\ req' = [req EXCEPT ![r] =
                   [Arrived(Route("GET", <<"auth", "github">>)) EXCEPT
                      !.pc = "done",
                      !.res = IF ~Truthy(clientId)
                              THEN SendText("500", "GitHub client ID not configured")
                              ELSE SendRedirect(AuthorizeUrl(clientId))]]
      /\ UNCHANGED <<githubAccessToken, env, program, lastExchange>>

(***************************************************************************)
(* GET /auth/github/callback                                               *)
(***************************************************************************)
TokenUrl == "https://github.com/login/oauth/access_token"

\* The fetch of the token endpoint (lines 69-80).
TokenCall(clientId, clientSecret, code) ==
  [url |-> TokenUrl, method |-> "POST", auth |-> <<>>, agent |-> "",
   body |-> JSONStringify(JObj(<< <<"client_id", clientId>>,
                                  <<"client_secret", clientSecret>>,
                                  <<"code", code>> >>))]

\* Mutant: the check written as `if (code === undefined)`.
CodeUndefined(code) == code = JSUndefined

\* if (!code)
CodeMissing(code) == ~Truthy(code)

\* Mutant: the check written as `if (!clientId)`.
ConfigMissingIdOnly(clientId, clientSecret) == ~Truthy(clientId)

\* if (!clientId || !clientSecret)
ConfigMissing(clientId, clientSecret) == ~Truthy(clientId) \/ ~Truthy(clientSecret)

\* Mutant: starting the exchange puts the slot in a pending (empty) state.
CallbackStartPending(r) ==
  \E code \in Codes :
    LET rt == Route("GET", <<"auth", "github", "callback">>)
        clientId == env.GITHUB_CLIENT_ID
        clientSecret == env.GITHUB_CLIENT_SECRET
        arrived == [Arrived(rt) EXCEPT !.code = code]
        exchanging == ~CodeMissing(code) /\ ~ConfigMissing(clientId, clientSecret)
    IN  /\ req' = [req EXCEPT ![r] =
                     IF CodeMissing(code)
                     THEN [arrived EXCEPT
                             !.pc = "done",
                             !.res = SendText("400", "Missing OAuth code")]
                     ELSE IF ConfigMissing(clientId, clientSecret)
                     THEN [arrived EXCEPT
                             !.pc = "done",
                             !.res = SendText("500", "GitHub client credentials not configured")]
                     ELSE [arrived EXCEPT
                             !.pc = "awaitFetch",
                             !.calls = <<TokenCall(clientId, clientSecret, code)>>]]
        /\ githubAccessToken' = IF exchanging THEN JSNull ELSE githubAccessToken
        /\ UNCHANGED <<env, program, lastExchange>>

\* The synchronous part of the handler, up to `await fetch(...)`.
CallbackStart(r) ==
  \E code \in Codes :
    LET rt == Route("GET", <<"auth", "github", "callback">>)
        clientId == env.GITHUB_CLIENT_ID
        clientSecret == env.GITHUB_CLIENT_SECRET
        arrived == [Arrived(rt) EXCEPT !.code = code]
    IN  /\ req' = [req EXCEPT ![r] =
                     IF CodeMissing(code)
                     THEN [arrived EXCEPT
                             !.pc = "done",
                             !.res = SendText("400", "Missing OAuth code")]
                     ELSE IF ConfigMissing(clientId, clientSecret)
                     THEN [arrived EXCEPT
                             !.pc = "done",
                             !.res = SendText("500", "GitHub client credentials not configured")]
                     ELSE [arrived EXCEPT
                             !.pc = "awaitFetch",
                             !.calls = <<TokenCall(clientId, clientSecret, code)>>]]
        /\ UNCHANGED <<githubAccessToken, env, program, lastExchange>>

\* Mutant: the catch block logs the error and sends nothing.
CallbackCatchSilent == NoResponse

\* catch (err): res.status(500).send(...)
CallbackCatch == SendText("500", "Failed to retrieve access token")

\* Mutant: the catch block also resets the stored credential.
CallbackFetchSettledClearing(r) ==
  /\ req[r].route = Route("GET", <<"auth", "github", "callback">>)
  /\ req[r].pc = "awaitFetch"
  /\ \/ /\ req' = [req EXCEPT ![r] =
                     [Answered(r, CallbackCatch) EXCEPT
                        !.got = [kind |-> "network", status |-> "", text |-> <<>>]]]
        /\ githubAccessToken' = JSNull
     \/ /\ req' = [req EXCEPT ![r].pc = "awaitJson"]
        /\ githubAccessToken' = githubAccessToken
  /\ UNCHANGED <<env, program, lastExchange>>

\* `await fetch(...)` settles: the promise rejects on a network failure,
\* otherwise the handler goes on to `await tokenRes.json()`.
CallbackFetchSettled(r) ==
  /\ req[r].route = Route("GET", <<"auth", "github", "callback">>)
  /\ req[r].pc = "awaitFetch"
  /\ \/ req' = [req EXCEPT ![r] =
                  [Answered(r, CallbackCatch) EXCEPT
                     !.got = [kind |-> "network", status |-> "", text |-> <<>>]]]
     \/ req' = [req EXCEPT ![r].pc = "awaitJson"]
  /\ UNCHANGED <<githubAccessToken, env, program, lastExchange>>

\* Mutant: the check written as `if (data.error_description)`.
HasErrorDescription(data) == Truthy(GetProp(data, "error_description").val)

\* if (data.error)
HasError(data) == Truthy(GetProp(data, "error").val)

\* { error: data.error_description || data.error }
ErrorBody(data) ==
  JObj(<< <<"error", JSOr(GetProp(data, "error_description").val,
                          GetProp(data, "error").val)>> >>)

\* Mutant: the store written as `githubAccessToken ||= data.access_token`.
AccessTokenKeepFirst(data) ==
  IF Truthy(githubAccessToken) THEN githubAccessToken
  ELSE GetProp(data, "access_token").val

\* The value assigned to githubAccessToken: data.access_token
AccessToken(data) == GetProp(data, "access_token").val

\* `await tokenRes.json()` settles with the body the token endpoint sent;
\* the rest of the handler (lines 81-91) runs in the same step.
CallbackJsonSettled(r) ==
  /\ req[r].route = Route("GET", <<"auth", "github", "callback">>)
  /\ req[r].pc = "awaitJson"
  /\ \E text \in TokenBodies :
       LET parsed == JSONParse(text)
           data == parsed.val
           reply == [kind |-> "body", status |-> "200", text |-> text]
       IN  IF ~parsed.ok \/ ~GetProp(data, "error").ok
           THEN \* json() rejected, or data.error threw a TypeError
                /\ req' = [req EXCEPT ![r] =
                             [Answered(r, CallbackCatch) EXCEPT !.got = reply]]
                /\ UNCHANGED <<githubAccessToken, lastExchange>>
           ELSE IF HasError(data)
           THEN /\ req' = [req EXCEPT ![r] =
                             [Answered(r, SendJson("400", ErrorBody(data))) EXCEPT
                                !.got = reply]]
                /\ UNCHANGED <<githubAccessToken, lastExchange>>
           ELSE /\ githubAccessToken' = AccessToken(data)
                /\ req' = [req EXCEPT ![r] =
                             [Answered(r, SendText("200",
                                 "GitHub OAuth success! You can close this tab."))
                              EXCEPT !.got = reply]]
                /\ lastExchange' = GetProp(data, "access_token").val
  /\ UNCHANGED <<env, program>>

(***************************************************************************)
(* GET /sse and GET /: tool discovery over Server-Sent Events.             *)
(***************************************************************************)
\* parameters: { type: "object", properties: {}, required: [] }
NoParameters ==
  JObj(<< <<"type", JStr("object")>>,
          <<"properties", JObj(<<>>)>>,
          <<"required", JArr(<<>>)>> >>)

\* Mutant: the handler finishes the response after the frame, res.end().
EventStreamEnding(payload) ==
  [n |-> 1, status |-> "200",
   headers |-> << <<"Content-Type", "text/event-stream">>,
                  <<"Cache-Control", "no-cache">>,
                  <<"Connection", "keep-alive">> >>,
   ops |-> <<"set", "flushHeaders", "write", "end">>,
   kind |-> "sse",
   body |-> <<[prefix |-> "data: ", json |-> JSONStringify(payload),
               suffix |-> "\n\n"]>>,
   ended |-> TRUE]

\* The response of a discovery handler after res.set, res.flushHeaders and
\* one res.write of the frame `data: ${JSON.stringify(payload)}\n\n`.  The
\* handler never calls res.end.
EventStream(payload) ==
  [n |-> 1, status |-> "200",
   headers |-> << <<"Content-Type", "text/event-stream">>,
                  <<"Cache-Control", "no-cache">>,
                  <<"Connection", "keep-alive">> >>,
   ops |-> <<"set", "flushHeaders", "write">>,
   kind |-> "sse",
   body |-> << [prefix |-> "data: ", json |-> JSONStringify(payload),
                suffix |-> "\n\n"] >>,
   ended |-> FALSE]

\* const tools = {...} of GET /sse (lines 111-128)
SseTools ==
  JObj(<< <<"listRepos",
            JObj(<< <<"description",
                      JStr("List the authenticated user's GitHub repositories")>>,
                    <<"parameters", NoParameters>> >>)>>,
          <<"getUser",
            JObj(<< <<"description",
                      JStr("Get the authenticated user's GitHub profile information")>>,
                    <<"parameters", NoParameters>> >>)>> >>)

\* const payload = {...} of GET /sse (lines 129-132)
SsePayload == JObj(<< <<"message", JStr("GitHub tools ready")>>, <<"tools", SseTools>> >>)

\* Mutant: GET /sse advertises the tools only once a credential is stored.
SseHandlerAuthAware(r) ==
  /\ req' = [req EXCEPT ![r] =
               [Arrived(Route("GET", <<"sse">>)) EXCEPT
                  !.pc = "open",
                  !.res = IF Truthy(githubAccessToken)
                          THEN EventStream(SsePayload)
                          ELSE EventStream(JObj(<< <<"message", JStr("GitHub tools ready")>>,
                                                   <<"tools", JObj(<<>>)>> >>))]]
  /\ UNCHANGED <<githubAccessToken, env, program, lastExchange>>

\* What GET /sse has sent when its handler returns.
SseStream == EventStream(SsePayload)

SseHandler(r) ==
  /\ req' = [req EXCEPT ![r] =
               [Arrived(Route("GET", <<"sse">>)) EXCEPT
                  !.pc = "open", !.res = SseStream]]
  /\ UNCHANGED <<githubAccessToken, env, program, lastExchange>>

\* Mutant: the copy on GET / has fallen behind and lacks the getUser tool.
RootToolsStale ==
  JObj(<< <<"listRepos",
            JObj(<< <<"description",
                      JStr("List the authenticated user's GitHub repositories")>>,
                    <<"parameters", NoParameters>> >>)>> >>)

\* const tools = {...} of GET / (lines 153-170)
RootTools ==
  JObj(<< <<"listRepos",
            JObj(<< <<"description",
                      JStr("List the authenticated user's GitHub repositories")>>,
                    <<"parameters", NoParameters>> >>)>>,
          <<"getUser",
            JObj(<< <<"description",
                      JStr("Get the authenticated user's GitHub profile information")>>,
                    <<"parameters", NoParameters>> >>)>> >>)

\* const payload = {...} of GET / (lines 171-174)
RootPayload == JObj(<< <<"message", JStr("GitHub tools ready")>>, <<"tools", RootTools>> >>)

\* What GET / has sent when its handler returns.
RootStream == EventStream(RootPayload)

RootHandler(r) ==
  /\ req' = [req EXCEPT ![r] =
               [Arrived(Route("GET", <<>>)) EXCEPT
                  !.pc = "open", !.res = RootStream]]
  /\ UNCHANGED <<githubAccessToken, env, program, lastExchange>>

\* The client closes a discovery connection; the server never does.
ClientDisconnect(r) ==
  /\ req[r].pc = "open"
  /\ req' = [req EXCEPT ![r].pc = "done"]
  /\ UNCHANGED <<githubAccessToken, env, program, lastExchange>>

(***************************************************************************)
(* GET /sse of the minimal server (unnamed/part_000).                      *)
(***************************************************************************)
\* The only route the minimal server registers.
PartRoutes == { Route("GET", <<"sse">>) }

\* const payload = {...} (part_000 lines 36-38)
PartPayload == JObj(<< <<"message", JStr("Hello from your MCP server!")>> >>)

\* What GET /sse of the minimal server has sent when its handler returns.
PartStream == EventStream(PartPayload)

PartSseHandler(r) ==
  /\ req' = [req EXCEPT ![r] =
               [Arrived(Route("GET", <<"sse">>)) EXCEPT
                  !.pc = "open", !.res = PartStream]]
  /\ UNCHANGED <<githubAccessToken, env, program, lastExchange>>

(***************************************************************************)
(* POST /listRepos and POST /getUser: tool invocation.                     *)
(***************************************************************************)
\* The fetch of the credentialed API: Authorization: `token ${token}`.
ApiCall(url, token) ==
  [url |-> url, method |-> "GET", auth |-> <<"token ", ToStr(token)>>,
   agent |-> "mcp-server", body |-> <<>>]

\* Mutant: the check written as `githubAccessToken === null`.
CredentialMissingNullOnly(token) == token = JSNull

\* if (!githubAccessToken)
CredentialMissing(token) == ~Truthy(token)

\* res.status(401).json({ error: "GitHub OAuth required" })
Unauthenticated == SendJson("401", JObj(<< <<"error", JStr("GitHub OAuth required")>> >>))

\* Mutant: the header is built after a suspension point, so the slot may have
\* been rewritten by then.
InvokeStartDeferredRead(r, rt, url) ==
  /\ \E later \in {githubAccessToken, JSUndefined, JStr("tokB")} :
       req' = [req EXCEPT ![r] =
                 IF CredentialMissing(githubAccessToken)
                 THEN [Arrived(rt) EXCEPT
                         !.pc = "done", !.res = Unauthenticated]
                 ELSE [Arrived(rt) EXCEPT
                         !.pc = "awaitFetch",
                         !.calls = <<ApiCall(url, later)>>]]
  /\ UNCHANGED <<githubAccessToken, env, program, lastExchange>>

\* The synchronous part of an invocation handler: the credential check and,
\* in the same step, the fetch that reads the slot again for its header.
InvokeStart(r, rt, url) ==
  /\ req' = [req EXCEPT ![r] =
               IF CredentialMissing(githubAccessToken)
               THEN [Arrived(rt) EXCEPT
                       !.pc = "done", !.res = Unauthenticated]
               ELSE [Arrived(rt) EXCEPT
                       !.pc = "awaitFetch",
                       !.calls = <<ApiCall(url, githubAccessToken)>>]]
  /\ UNCHANGED <<githubAccessToken, env, program, lastExchange>>

\* catch (err): res.status(500).json({ error: message })
InvokeCatch(message) == SendJson("500", JObj(<< <<"error", JStr(message)>> >>))

\* Mutant: a rejected fetch is tried once more before giving up.
InvokeFetchRetried(r, rt, message) ==
  /\ req[r].route = rt
  /\ req[r].pc = "awaitFetch"
  /\ \/ /\ Len(req[r].calls) < 2
        /\ req' = [req EXCEPT ![r].calls = Append(@, @[1])]
     \/ /\ Len(req[r].calls) = 2
        /\ req' = [req EXCEPT ![r] =
                     [Answered(r, InvokeCatch(message)) EXCEPT
                        !.got = [kind |-> "network", status |-> "", text |-> <<>>]]]
     \/ req' = [req EXCEPT ![r].pc = "awaitJson"]
  /\ UNCHANGED <<githubAccessToken, env, program, lastExchange>>

\* Mutant: the continuation of an invocation waits while any callback's
\* exchange is in flight.
InvokeFetchSettledQueued(r, rt, message) ==
  /\ req[r].route = rt
  /\ req[r].pc = "awaitFetch"
  /\ \A o \in ReqIds \ {r} :
       ~(/\ req[o].route = Route("GET", <<"auth", "github", "callback">>)
         /\ req[o].pc \in {"awaitFetch", "awaitJson"})
  /\ \/ req' = [req EXCEPT ![r] =
                  [Answered(r, InvokeCatch(message)) EXCEPT
                     !.got = [kind |-> "network", status |-> "", text |-> <<>>]]]
     \/ req' = [req EXCEPT ![r].pc = "awaitJson"]
  /\ UNCHANGED <<githubAccessToken, env, program, lastExchange>>

\* `await fetch(...)` settles: rejected on a network failure, otherwise the
\* handler goes on to `await ghRes.json()`.
InvokeFetchSettled(r, rt, message) ==
  /\ req[r].route = rt
  /\ req[r].pc = "awaitFetch"
  /\ \/ req' = [req EXCEPT ![r] =
                  [Answered(r, InvokeCatch(message)) EXCEPT
                     !.got = [kind |-> "network", status |-> "", text |-> <<>>]]]
     \/ req' = [req EXCEPT ![r].pc = "awaitJson"]
  /\ UNCHANGED <<githubAccessToken, env, program, lastExchange>>

\* Mutant: the value is wrapped, `res.json({ result: repos })`.
RelayWrapped(value) == SendJson("200", JObj(<< <<"result", value>> >>))

\* res.json(repos) / res.json(user): the parsed value, as it is.
Relay(value) == SendJson("200", value)

\* Mutant: an upstream 401 makes the handler drop the stored credential.
InvokeJsonSettledInvalidating(r, rt, message) ==
  /\ req[r].route = rt
  /\ req[r].pc = "awaitJson"
  /\ \E resp \in ApiResponses :
       LET parsed == JSONParse(resp.text)
           reply == [kind |-> "body", status |-> resp.status, text |-> resp.text]
       IN  /\ req' = [req EXCEPT ![r] =
                        [Answered(r, IF parsed.ok THEN Relay(parsed.val)
                                     ELSE InvokeCatch(message))
                         EXCEPT !.got = reply]]
           /\ githubAccessToken' = IF resp.status = "401" THEN JSNull
                                   ELSE githubAccessToken
  /\ UNCHANGED <<env, program, lastExchange>>

\* `await ghRes.json()` settles with the body the API sent, whatever its
\* HTTP status; the handler never reads ghRes.status or ghRes.ok.
InvokeJsonSettled(r, rt, message) ==
  /\ req[r].route = rt
  /\ req[r].pc = "awaitJson"
  /\ \E resp \in ApiResponses :
       LET parsed == JSONParse(resp.text)
           reply == [kind |-> "body", status |-> resp.status, text |-> resp.text]
       IN  req' = [req EXCEPT ![r] =
                     [Answered(r, IF parsed.ok THEN Relay(parsed.val)
                                  ELSE InvokeCatch(message))
                      EXCEPT !.got = reply]]
  /\ UNCHANGED <<githubAccessToken, env, program, lastExchange>>

ListReposRoute == Route("POST", <<"listRepos">>)

ListReposStart(r) == InvokeStart(r, ListReposRoute, "https://api.github.com/user/repos")

ListReposFetchSettled(r) == InvokeFetchSettled(r, ListReposRoute, "Failed to fetch repositories")

ListReposJsonSettled(r) == InvokeJsonSettled(r, ListReposRoute, "Failed to fetch repositories")

GetUserRoute == Route("POST", <<"getUser">>)

GetUserStart(r) == InvokeStart(r, GetUserRoute, "https://api.github.com/user")

GetUserFetchSettled(r) == InvokeFetchSettled(r, GetUserRoute, "Failed to fetch user")

GetUserJsonSettled(r) == InvokeJsonSettled(r, GetUserRoute, "Failed to fetch user")

(***************************************************************************)
(* The server: Express dispatches an arriving request to the handler       *)
(* registered for its method and path; awaited promises settle in any      *)
(* order.                                                                  *)
(***************************************************************************)
Dispatch(r, rt) ==
  CASE rt = Route("GET", <<"auth", "github">>) -> BeginAuthorization(r)
    [] rt = Route("GET", <<"auth", "github", "callback">>) -> CallbackStart(r)
    [] rt = Route("GET", <<"sse">>) -> SseHandler(r)
    [] rt = Route("GET", <<>>) -> RootHandler(r)
    [] rt = ListReposRoute -> ListReposStart(r)
    [] rt = GetUserRoute -> GetUserStart(r)

Arrive(r) ==
  /\ program = "server.js"
  /\ Free(r)
  /\ \E rt \in Routes : Dispatch(r, rt)

\* The minimal server dispatches to its only handler.
ArrivePart(r) ==
  /\ program = "part_000"
  /\ Free(r)
  /\ \E rt \in PartRoutes : PartSseHandler(r)

\* The routes registered by the program that runs.
Registered == IF program = "server.js" THEN Routes ELSE PartRoutes

Next ==
  \E r \in ReqIds :
    \/ Arrive(r)
    \/ ArrivePart(r)
    \/ CallbackFetchSettled(r)
    \/ CallbackJsonSettled(r)
    \/ ListReposFetchSettled(r)
    \/ ListReposJsonSettled(r)
    \/ GetUserFetchSettled(r)
    \/ GetUserJsonSettled(r)
    \/ ClientDisconnect(r)

Spec == Init /\ [][Next]_vars

\* The continuations of request r that run when its own upstream call
\* returns: the code after each `await` of its handler.
Settle(r) ==
  \/ CallbackFetchSettled(r)
  \/ CallbackJsonSettled(r)
  \/ ListReposFetchSettled(r)
  \/ ListReposJsonSettled(r)
  \/ GetUserFetchSettled(r)
  \/ GetUserJsonSettled(r)

\* The upstream calls of request 1 return and the event loop runs their
\* continuations; nothing is assumed of any other request or client.
LiveSpec == Spec /\ WF_vars(Settle(1))

(***************************************************************************)
(* Vocabulary of the properties.                                           *)
(***************************************************************************)
IsCallback(q) == q.route = Route("GET", <<"auth", "github", "callback">>)

IsInvocation(q) == q.route \in {ListReposRoute, GetUserRoute}

IsDiscovery(q) == q.route \in {Route("GET", <<"sse">>), Route("GET", <<>>)}

\* x is a token: a non-empty string.
HoldsToken(x) == x.t = "str" /\ x.v # ""

\* In this step a request arrives on slot r and the synchronous part of its
\* handler runs.
Starts(r) == Free(r) /\ req'[r] # req[r]

\* In this step the exchange of callback r ends, with any outcome.
ExchangeEnds(r) == IsCallback(req[r]) /\ req[r].pc = "awaitJson" /\ req'[r].pc = "done"

\* The JSON value of a JSON response body.
BodyValue(res) == JSONParse(res.body).val

\* The token of the Authorization header of the only outbound call of q.
Forwarded(q) == q.calls[1].auth

(***************************************************************************)
(* C1.  A tool invocation (POST /listRepos, POST /getUser) that starts     *)
(* while the credential slot holds no token is answered 401 with an        *)
(* {error} body in the same step, issues no outbound call, and leaves the  *)
(* credential slot unchanged.                                              *)
(***************************************************************************)
C1_UnauthenticatedInvocation ==
  [][\A r \in ReqIds :
       (Starts(r) /\ IsInvocation(req'[r]) /\ ~HoldsToken(githubAccessToken))
         => /\ req'[r].pc = "done"
            /\ req'[r].res.n = 1
            /\ req'[r].res.status = "401"
            /\ req'[r].res.kind = "json"
            /\ Keys(BodyValue(req'[r].res)) = {"error"}
            /\ req'[r].calls = <<>>
            /\ githubAccessToken' = githubAccessToken]_vars

\* Both tools have been invoked before any exchange and answered 401.
C1_Witness ==
  /\ lastExchange = NoExchange
  /\ \E r1, r2 \in ReqIds :
       /\ req[r1].route = ListReposRoute /\ req[r1].res.status = "401"
       /\ req[r2].route = GetUserRoute /\ req[r2].res.status = "401"
       /\ req[r1].calls = <<>> /\ req[r2].calls = <<>>

(***************************************************************************)
(* C2.  Overwrite semantics: every successful exchange replaces the slot's *)
(* value with the token it was granted, also when the slot already held a  *)
(* token, and an invocation that starts when the latest successful         *)
(* exchange was granted token T2 attaches T2 to its outbound call, never   *)
(* the token of an earlier exchange.                                       *)
(***************************************************************************)
C2_OverwriteSemantics ==
  [][\A r \in ReqIds :
       /\ (ExchangeEnds(r) /\ req'[r].res.status = "200" /\ HoldsToken(lastExchange'))
            => githubAccessToken' = lastExchange'
       /\ (Starts(r) /\ IsInvocation(req'[r]) /\ HoldsToken(lastExchange))
            => /\ Len(req'[r].calls) = 1
               /\ Forwarded(req'[r]) = <<"token ", lastExchange.v>>]_vars

\* An exchange granted tokA, a later one granted tokB, and an invocation
\* started after that is carrying tokB.
C2_Witness ==
  /\ lastExchange = JStr("tokB")
  /\ \E r1, r2 \in ReqIds :
       /\ IsCallback(req[r1]) /\ req[r1].res.status = "200"
       /\ req[r1].got.text = TokenGranted("tokA")
       /\ IsInvocation(req[r2]) /\ req[r2].pc = "awaitFetch"
       /\ Forwarded(req[r2]) = <<"token ", "tokB">>

(***************************************************************************)
(* C3.  When a callback is answered with the success response (200) the    *)
(* credential slot holds a non-empty token, and an invocation that starts  *)
(* after a successful exchange is not answered 401 and forwards the token  *)
(* that exchange returned.                                                 *)
(***************************************************************************)
C3_SuccessMeansAuthenticated ==
  [][\A r \in ReqIds :
       /\ (ExchangeEnds(r) /\ req'[r].res.status = "200")
            => HoldsToken(githubAccessToken')
       /\ (Starts(r) /\ IsInvocation(req'[r]) /\ lastExchange # NoExchange)
            => /\ req'[r].res.status # "401"
               /\ Len(req'[r].calls) = 1
               /\ Forwarded(req'[r]) = <<"token ", ToStr(lastExchange)>>]_vars

(***************************************************************************)
(* C4.  When the token endpoint answers the exchange with a response that  *)
(* carries an error field, the callback responds 400 with a JSON body      *)
(* whose error is the upstream error description, or the error itself,     *)
(* and the credential slot keeps the value it had before that step.        *)
(***************************************************************************)
\* The response text is a JSON object with an "error" member.
CarriesError(text) == JSONParse(text).ok /\ "error" \in Keys(JSONParse(text).val)

C4_UpstreamErrorIs400 ==
  [][\A r \in ReqIds :
       (ExchangeEnds(r) /\ CarriesError(req'[r].got.text))
         => LET data == JSONParse(req'[r].got.text).val
                said == GetProp(BodyValue(req'[r].res), "error").val
            IN  /\ req'[r].res.n = 1
                /\ req'[r].res.status = "400"
                /\ req'[r].res.kind = "json"
                /\ said.t = "str"
                /\ said \in {GetProp(data, "error_description").val,
                             GetProp(data, "error").val}
                /\ githubAccessToken' = githubAccessToken]_vars

\* An exchange was refused with access_denied while the slot held a
\* previously stored token.
C4_Witness ==
  \E r \in ReqIds :
    /\ IsCallback(req[r]) /\ req[r].res.status = "400"
    /\ CarriesError(req[r].got.text)
    /\ GetProp(BodyValue(req[r].res), "error").val = JStr("access_denied")
    /\ HoldsToken(githubAccessToken)

(***************************************************************************)
(* C5.  A callback request whose code is absent or empty is answered 400   *)
(* in its first step, whatever the configuration: it makes no call to the  *)
(* token endpoint and leaves the credential slot unchanged.                *)
(***************************************************************************)
C5_MissingCodeIs400 ==
  [][\A r \in ReqIds :
       (Starts(r) /\ IsCallback(req'[r]) /\ req'[r].code \in {JSUndefined, JStr("")})
         => /\ req'[r].pc = "done"
            /\ req'[r].res.n = 1
            /\ req'[r].res.status = "400"
            /\ req'[r].calls = <<>>
            /\ githubAccessToken' = githubAccessToken]_vars

\* A callback with an empty code was answered 400 on a deployment with no
\* client secret, and one with no code on the same deployment.
C5_Witness ==
  /\ ~Truthy(env.GITHUB_CLIENT_SECRET)
  /\ \E r1, r2 \in ReqIds :
       /\ IsCallback(req[r1]) /\ req[r1].code = JStr("") /\ req[r1].res.status = "400"
       /\ IsCallback(req[r2]) /\ req[r2].code = JSUndefined /\ req[r2].res.status = "400"
       /\ req[r1].calls = <<>> /\ req[r2].calls = <<>>

(***************************************************************************)
(* C6.  GET /sse and GET / are behaviourally identical: in every state a   *)
(* response on one equals a response on the other in status, headers,      *)
(* order of writes and the single frame with its JSON manifest.            *)
(***************************************************************************)
C6_EntryPointsIdentical ==
  \A r1, r2 \in ReqIds :
    (req[r1].route = Route("GET", <<"sse">>) /\ req[r2].route = Route("GET", <<>>))
      => /\ req[r1].res.status = req[r2].res.status
         /\ req[r1].res.headers = req[r2].res.headers
         /\ req[r1].res.ops = req[r2].res.ops
         /\ Len(req[r1].res.body) = 1
         /\ req[r1].res.body = req[r2].res.body

\* Both entry points have an open channel while a token is stored.
C6_Witness ==
  /\ HoldsToken(githubAccessToken)
  /\ \E r1, r2 \in ReqIds :
       /\ req[r1].route = Route("GET", <<"sse">>) /\ req[r1].pc = "open"
       /\ req[r2].route = Route("GET", <<>>) /\ req[r2].pc = "open"

(***************************************************************************)
(* C7.  The tool names advertised in the manifest of any discovery         *)
(* response, on either entry point, are exactly the names <name> of the    *)
(* registered POST /<name> invocation routes.                              *)
(***************************************************************************)
\* The names of the invocation routes the server has registered.
InvocationRoutes ==
  {rt.path[1] : rt \in {x \in Registered : x.method = "POST" /\ Len(x.path) = 1}}

\* The tool names in the manifest of a discovery response.
AdvertisedNames(res) == Keys(GetProp(JSONParse(res.body[1].json).val, "tools").val)

C7_AdvertisedEqualsImplemented ==
  \A r \in ReqIds :
    /\ IsDiscovery(req[r]) => AdvertisedNames(req[r].res) = InvocationRoutes
    /\ IsInvocation(req[r]) => req[r].route.path[1] \in InvocationRoutes

\* A manifest has been sent and an advertised tool is being invoked.
C7_Witness ==
  \E r1, r2 \in ReqIds :
    /\ IsDiscovery(req[r1])
    /\ IsInvocation(req[r2]) /\ req[r2].pc = "awaitJson"
    /\ req[r2].route.path[1] \in AdvertisedNames(req[r1].res)

(***************************************************************************)
(* C8.  An invocation whose upstream call succeeds with JSON body B is     *)
(* answered 200 with a body whose JSON value is exactly B.                 *)
(***************************************************************************)
C8_RelayVerbatim ==
  \A r \in ReqIds :
    LET q == req[r]
    IN  (/\ IsInvocation(q) /\ q.pc = "done"
         /\ q.got.kind = "body" /\ q.got.status = "200"
         /\ JSONParse(q.got.text).ok)
          => /\ q.res.n = 1
             /\ q.res.status = "200"
             /\ q.res.kind = "json"
             /\ JSONParse(q.res.body).ok
             /\ BodyValue(q.res) = JSONParse(q.got.text).val

\* The repository array, sent with whitespace by the upstream, was relayed:
\* the bytes differ, the value is the same.
C8_Witness ==
  \E r \in ReqIds :
    /\ req[r].route = ListReposRoute /\ req[r].res.status = "200"
    /\ req[r].got.status = "200"
    /\ BodyValue(req[r].res).t = "arr"
    /\ req[r].res.body # req[r].got.text
    /\ BodyValue(req[r].res) = JSONParse(req[r].got.text).val

(***************************************************************************)
(* C9.  Discovery is stateless and unauthenticated: a discovery request    *)
(* changes nothing but its own response (not the credential slot, not any  *)
(* other request), and its response equals every earlier response of the   *)
(* same entry point, whatever the credential slot held then and holds now. *)
(***************************************************************************)
C9_DiscoveryStateless ==
  [][\A r \in ReqIds :
       (Starts(r) /\ IsDiscovery(req'[r]))
         => /\ githubAccessToken' = githubAccessToken
            /\ env' = env
            /\ \A o \in ReqIds \ {r} : req'[o] = req[o]
            /\ req'[r].calls = <<>>
            /\ \A o \in ReqIds :
                 (IsDiscovery(req[o]) /\ req[o].route = req'[r].route)
                   => req'[r].res = req[o].res]_vars

\* Two channels of the same entry point are open after an exchange stored
\* a token.
C9_Witness ==
  /\ HoldsToken(githubAccessToken)
  /\ \E r1, r2 \in ReqIds :
       /\ r1 # r2
       /\ IsDiscovery(req[r1]) /\ req[r1].pc = "open"
       /\ req[r2].route = req[r1].route /\ req[r2].pc = "open"
       /\ req[r1].res = req[r2].res

(***************************************************************************)
(* C10.  Every external call is attempted exactly once: an invocation that *)
(* passed the credential check has issued exactly one call to the API, a   *)
(* callback that passed the code and configuration checks exactly one call *)
(* to the token endpoint, also after that call has failed; every other     *)
(* request has issued none.                                                *)
(***************************************************************************)
C10_ExactlyOneCall ==
  \A r \in ReqIds :
    LET q == req[r]
        passed ==
          \/ IsInvocation(q) /\ q.res.status # "401"
          \/ /\ IsCallback(q)
             /\ Truthy(q.code)
             /\ Truthy(env.GITHUB_CLIENT_ID) /\ Truthy(env.GITHUB_CLIENT_SECRET)
    IN  /\ passed => Len(q.calls) = 1
        /\ ~passed => q.calls = <<>>
        /\ (passed /\ IsCallback(q)) => q.calls[1].url = TokenUrl
        /\ (passed /\ IsInvocation(q)) => q.calls[1].auth[1] = "token "

\* An invocation and a callback have both failed on the network, each
\* after a single attempt.
C10_Witness ==
  \E r1, r2 \in ReqIds :
    /\ IsInvocation(req[r1]) /\ req[r1].got.kind = "network"
    /\ req[r1].res.status = "500" /\ Len(req[r1].calls) = 1
    /\ IsCallback(req[r2]) /\ req[r2].got.kind = "network"
    /\ req[r2].res.status = "500" /\ Len(req[r2].calls) = 1

(***************************************************************************)
(* C11.  Every failure is caught at the boundary of its own handler: a     *)
(* callback or invocation request has sent nothing while its upstream call *)
(* is pending, and once its handler has returned it has sent exactly one   *)
(* complete response whose status is declared for its route (callback:     *)
(* 200, 400, 500; invocation: 200, 401, 500), whatever the upstream did;   *)
(* the server then accepts the next request.                               *)
(***************************************************************************)
DeclaredStatus(q) ==
  IF IsCallback(q) THEN {"200", "400", "500"} ELSE {"200", "401", "500"}

C11_FailuresCaught ==
  \A r \in ReqIds :
    LET q == req[r]
    IN  (IsCallback(q) \/ IsInvocation(q))
          => /\ q.pc \in {"awaitFetch", "awaitJson", "done"}
             /\ q.pc # "done" => q.res = NoResponse
             /\ q.pc = "done"
                  => /\ q.res.n = 1
                     /\ q.res.ended
                     /\ q.res.status \in DeclaredStatus(q)
                     /\ ENABLED Arrive(r)

\* A callback whose exchange returned the JSON literal null and an
\* invocation whose upstream sent a non-JSON page were both answered 500.
C11_Witness ==
  \E r1, r2 \in ReqIds :
    /\ IsCallback(req[r1]) /\ req[r1].got.text = <<NullTok>>
    /\ req[r1].res.status = "500" /\ req[r1].res.n = 1
    /\ IsInvocation(req[r2]) /\ req[r2].got.text = <<Bad("<html>")>>
    /\ req[r2].res.status = "500" /\ req[r2].res.n = 1

(***************************************************************************)
(* C12.  Configuration errors are answered 500 with no effect: GET         *)
(* /auth/github answers 500 when the client identifier is unset and 302    *)
(* otherwise, and in both cases makes no call and changes neither the      *)
(* credential slot nor any other request; a callback that carries a code   *)
(* answers 500 when the client secret is unset, without calling the token  *)
(* endpoint and without changing the credential slot.                      *)
(***************************************************************************)
C12_ConfigurationErrors ==
  [][\A r \in ReqIds :
       /\ (Starts(r) /\ req'[r].route = Route("GET", <<"auth", "github">>))
            => /\ req'[r].pc = "done"
               /\ req'[r].res.n = 1
               /\ req'[r].res.status =
                    IF env.GITHUB_CLIENT_ID = JSUndefined THEN "500" ELSE "302"
               /\ req'[r].calls = <<>>
               /\ githubAccessToken' = githubAccessToken
               /\ lastExchange' = lastExchange
               /\ \A o \in ReqIds \ {r} : req'[o] = req[o]
       /\ (/\ Starts(r) /\ IsCallback(req'[r])
           /\ HoldsToken(req'[r].code)
           /\ env.GITHUB_CLIENT_SECRET = JSUndefined)
            => /\ req'[r].pc = "done"
               /\ req'[r].res.n = 1
               /\ req'[r].res.status = "500"
               /\ req'[r].calls = <<>>
               /\ githubAccessToken' = githubAccessToken]_vars

\* With the client identifier set and the secret unset, a begin request was
\* redirected and a callback carrying a code was answered 500.
C12_Witness ==
  /\ env.GITHUB_CLIENT_ID # JSUndefined
  /\ env.GITHUB_CLIENT_SECRET = JSUndefined
  /\ \E r1, r2 \in ReqIds :
       /\ req[r1].route = Route("GET", <<"auth", "github">>)
       /\ req[r1].res.status = "302"
       /\ IsCallback(req[r2]) /\ HoldsToken(req[r2].code)
       /\ req[r2].res.status = "500" /\ req[r2].calls = <<>>

\* On a deployment without a client identifier the begin request was
\* answered 500.
C12_WitnessUnset ==
  \E r \in ReqIds :
    /\ req[r].route = Route("GET", <<"auth", "github">>)
    /\ req[r].res.status = "500"

(***************************************************************************)
(* C13.  The credential slot is written only by the completion step of    *)
(* the authorization callback: a step that changes the slot is the step in *)
(* which some callback's exchange ends and is answered 200.                *)
(***************************************************************************)
C13_OnlyCallbackWrites ==
  [][githubAccessToken' # githubAccessToken
       => \E r \in ReqIds : ExchangeEnds(r) /\ req'[r].res.status = "200"]_vars

\* After a token was stored, an invocation got an upstream 401 and a
\* callback was refused; the slot still holds the token.
C13_Witness ==
  /\ HoldsToken(githubAccessToken)
  /\ githubAccessToken = lastExchange
  /\ \E r1, r2 \in ReqIds :
       /\ IsInvocation(req[r1]) /\ req[r1].pc = "done" /\ req[r1].got.status = "401"
       /\ IsCallback(req[r2]) /\ req[r2].res.status = "400"

(***************************************************************************)
(* C14.  An invocation racing with a callback observes the credential of   *)
(* the last exchange that completed, never another value: at the step in   *)
(* which an invocation reads the slot, it is refused 401 without a call if *)
(* no completed exchange left a token, and otherwise forwards exactly the  *)
(* token the last completed exchange stored; a callback whose exchange is  *)
(* still in flight at that step has no influence on what is observed.      *)
(***************************************************************************)
Stored == IF lastExchange = NoExchange THEN JSNull ELSE lastExchange

ExchangeInFlight ==
  \E c \in ReqIds :
    IsCallback(req[c]) /\ req[c].pc \in {"awaitFetch", "awaitJson"}

C14_RaceObservesOldOrNew ==
  [][\A r \in ReqIds :
       (Starts(r) /\ IsInvocation(req'[r]))
         => IF HoldsToken(Stored)
            THEN /\ req'[r].pc = "awaitFetch"
                 /\ Forwarded(req'[r]) = <<"token ", Stored.v>>
            ELSE /\ req'[r].pc = "done"
                 /\ req'[r].res.status = "401"
                 /\ req'[r].calls = <<>>]_vars

\* An invocation carries the previous token tokA while a callback's exchange
\* is still in flight.
C14_Witness ==
  /\ ExchangeInFlight
  /\ lastExchange = JStr("tokA")
  /\ \E r \in ReqIds :
       /\ IsInvocation(req[r]) /\ req[r].pc = "awaitFetch"
       /\ Forwarded(req[r]) = <<"token ", "tokA">>

\* An invocation was refused 401 while the first exchange is in flight.
C14_WitnessEmpty ==
  /\ ExchangeInFlight
  /\ lastExchange = NoExchange
  /\ \E r \in ReqIds : IsInvocation(req[r]) /\ req[r].res.status = "401"

(***************************************************************************)
(* C16.  When a callback's exchange fails by a network error or by a       *)
(* response that cannot be parsed, the callback is answered 500 and the    *)
(* credential slot keeps the value it had before the step.                 *)
(***************************************************************************)
ExchangeBroke(q) ==
  \/ q.got.kind = "network"
  \/ q.got.kind = "body" /\ ~JSONParse(q.got.text).ok

C16_ExchangeFailureKeepsToken ==
  [][\A r \in ReqIds :
       (/\ IsCallback(req[r])
        /\ req[r].pc \in {"awaitFetch", "awaitJson"}
        /\ req'[r].pc = "done"
        /\ ExchangeBroke(req'[r]))
         => /\ req'[r].res.status = "500"
            /\ req'[r].res.n = 1
            /\ githubAccessToken' = githubAccessToken
            /\ lastExchange' = lastExchange]_vars

\* With tokA stored, one callback failed on the network and an invocation
\* forwarding tokA was answered 200.
C16_Witness ==
  /\ githubAccessToken = JStr("tokA")
  /\ \E r1, r2 \in ReqIds :
       /\ IsCallback(req[r1]) /\ req[r1].got.kind = "network"
       /\ req[r1].res.status = "500"
       /\ IsInvocation(req[r2]) /\ req[r2].pc = "done"
       /\ req[r2].got.status = "200" /\ req[r2].res.status = "200"
       /\ Forwarded(req[r2]) = <<"token ", "tokA">>

\* With tokA stored, a callback whose token response was not JSON was
\* answered 500.
C16_WitnessUnparseable ==
  /\ githubAccessToken = JStr("tokA")
  /\ \E r \in ReqIds :
       /\ IsCallback(req[r]) /\ req[r].got.text = <<Bad("<html>")>>
       /\ req[r].res.status = "500"

(***************************************************************************)
(* C20.  In an invocation the credential check and the read for the        *)
(* Authorization header are one step: the token attached to the outbound   *)
(* call is the slot's value that passed the check, no outbound API call    *)
(* carries an absent token, and no later step (a callback completing       *)
(* included) changes the call of an invocation in flight.                  *)
(***************************************************************************)
C20_CheckAndReadAtomic ==
  [][\A r \in ReqIds :
       /\ (Starts(r) /\ IsInvocation(req'[r]) /\ req'[r].calls # <<>>)
            => /\ HoldsToken(githubAccessToken)
               /\ Len(req'[r].calls) = 1
               /\ Forwarded(req'[r]) = <<"token ", githubAccessToken.v>>
               /\ Forwarded(req'[r])[2] \notin {"null", "undefined", ""}
       /\ (IsInvocation(req[r]) /\ req[r].pc \in {"awaitFetch", "awaitJson"})
            => req'[r].calls = req[r].calls]_vars

\* A callback stored tokB while an invocation's call, still in flight,
\* carries tokA.
C20_Witness ==
  /\ githubAccessToken = JStr("tokB")
  /\ \E r1, r2 \in ReqIds :
       /\ IsCallback(req[r1]) /\ req[r1].res.status = "200"
       /\ IsInvocation(req[r2]) /\ req[r2].pc \in {"awaitFetch", "awaitJson"}
       /\ Forwarded(req[r2]) = <<"token ", "tokA">>

(***************************************************************************)
(* C15.  On each discovery connection the server sets the three headers,   *)
(* flushes them, then writes exactly one frame `data: <JSON>\n\n`; after    *)
(* that it writes nothing more and never ends the response itself: the     *)
(* only later change of the connection is the client's disconnect, which   *)
(* leaves what was sent as it is.  Holds for the discovery route of the    *)
(* older server too.                                                       *)
(***************************************************************************)
OneFrameFlushedFirst(res) ==
  /\ res.ops = <<"set", "flushHeaders", "write">>
  /\ Len(res.body) = 1
  /\ res.body[1].prefix = "data: "
  /\ res.body[1].suffix = "\n\n"
  /\ JSONParse(res.body[1].json).ok
  /\ ~res.ended

C15_OneFrameThenOpen ==
  [][\A r \in ReqIds :
       /\ IsDiscovery(req'[r])
            => /\ req'[r].pc \in {"open", "done"}
               /\ OneFrameFlushedFirst(req'[r].res)
       /\ (Starts(r) /\ IsDiscovery(req'[r])) => req'[r].pc = "open"
       /\ (IsDiscovery(req[r]) /\ req[r].pc = "open")
            => req'[r] \in {req[r], [req[r] EXCEPT !.pc = "done"]}]_vars

\* One discovery connection was closed by its client and another is still
\* open; neither was ended by the server.
C15_Witness ==
  /\ program = "server.js"
  /\ \E r1, r2 \in ReqIds :
       /\ IsDiscovery(req[r1]) /\ req[r1].pc = "done" /\ ~req[r1].res.ended
       /\ IsDiscovery(req[r2]) /\ req[r2].pc = "open"
       /\ Len(req[r2].res.body) = 1

\* The same on the older server, whose frame carries the greeting.
C15_WitnessPart ==
  /\ program = "part_000"
  /\ \E r1, r2 \in ReqIds :
       /\ req[r1].res = PartStream /\ req[r1].pc = "done"
       /\ req[r2].res = PartStream /\ req[r2].pc = "open"

(***************************************************************************)
(* C17.  The upstream error of a failed invocation is never relayed: when  *)
(* the outbound call did not succeed (network failure, a status other      *)
(* than 200, or a body that is not JSON) the invocation is answered 500    *)
(* with the fixed generic {error} body, and an invocation is answered 200  *)
(* only after an upstream success.                                         *)
(***************************************************************************)
UpstreamFailed(q) ==
  \/ q.got.kind = "network"
  \/ q.got.kind = "body" /\ (q.got.status # "200" \/ ~JSONParse(q.got.text).ok)

GenericError(q) ==
  JObj(<< <<"error", JStr(IF q.route = ListReposRoute
                          THEN "Failed to fetch repositories"
                          ELSE "Failed to fetch user")>> >>)

C17_UpstreamErrorNotRelayed ==
  \A r \in ReqIds :
    LET q == req[r]
    IN  (IsInvocation(q) /\ q.pc = "done" /\ q.calls # <<>>)
          => /\ UpstreamFailed(q)
                  => /\ q.res.status = "500"
                     /\ BodyValue(q.res) = GenericError(q)
             /\ q.res.status = "200"
                  => q.got.kind = "body" /\ q.got.status = "200"

(***************************************************************************)
(* C18.  No operation blocks another: a callback or invocation whose own   *)
(* upstream call returns is eventually answered, however many discovery    *)
(* channels stay open and however many other callbacks or invocations wait *)
(* for upstream calls that never return.  Stated for the request on slot   *)
(* 1, the only one whose upstream calls are assumed to return.             *)
(***************************************************************************)
Awaiting(r) == req[r].pc \in {"awaitFetch", "awaitJson"}

C18_NoOperationBlocks ==
  Awaiting(1) ~> (req[1].pc = "done" /\ req[1].res.n = 1)

\* Request 1 was answered after its upstream call returned while another
\* request's exchange is still waiting for the token endpoint.
C18_Witness ==
  /\ req[1].pc = "done" /\ req[1].res.n = 1
  /\ IsInvocation(req[1]) /\ req[1].got.kind = "body"
  /\ IsCallback(req[2]) /\ Awaiting(2)

\* Request 1, a callback, was answered while a discovery channel is open.
C18_WitnessOpenChannel ==
  /\ req[1].pc = "done" /\ req[1].res.n = 1
  /\ IsCallback(req[1]) /\ req[1].got.kind = "body"
  /\ IsDiscovery(req[2]) /\ req[2].pc = "open"

(***************************************************************************)
(* C19.  The credential lives for the process's lifetime: once the slot    *)
(* holds a token, it holds a token after every later step.                 *)
(***************************************************************************)
C19_TokenNeverLost ==
  [][HoldsToken(githubAccessToken) => HoldsToken(githubAccessToken')]_vars

====
